---- MODULE Spec2Model ----
(***************************************************************************)
(* Model of TreeReference<T> (src/tree_reference.h): reference-counted     *)
(* handles over a pool that stores trees as one depth-first sequence of    *)
(* node records.  The pool and the node record (tree_pool.h, tree_node.h)  *)
(* are modelled from the specification: a record is                        *)
(*   [id, rc, nc, af] = identifier, retain count, child count, failure     *)
(* and a position is an index into the sequence `arena`; Len(arena)+1 is   *)
(* TreePool::last().  A handle carries nothing but m_identifier, so the    *)
(* live handles of the program are the bag `handles`: identifier -> number *)
(* of live handles holding it.                                             *)
(***************************************************************************)
EXTENDS Integers, Sequences, FiniteSets, TLC

\* number of records the pool can hold, and number of identifiers
Capacity == 4
\* live handles the client keeps at the same time
MaxHandles == 2

NodeIds == 0 .. (Capacity - 1)
\* identifier of the canonical allocation-failure node, which lives outside the arena
StaticId == Capacity
HandleIds == 0 .. Capacity

VARIABLES arena, handles, fault, last

vars == <<arena, handles, fault, last>>

Min(x, y) == IF x < y THEN x ELSE y

----------------------------------------------------------------------------
(* TreeNode / TreePool primitives                                          *)

Rec(id, rc, nc, af) == [id |-> id, rc |-> rc, nc |-> nc, af |-> af]

Sub(a, from, to) == IF from > to THEN << >> ELSE SubSeq(a, from, to)

\* TreePool::last(): the end of the used region
lastPos(a) == Len(a) + 1

RECURSIVE nodeFrom(_, _, _)
nodeFrom(a, id, q) ==
  IF q > Len(a) THEN 0 ELSE IF a[q].id = id THEN q ELSE nodeFrom(a, id, q + 1)

\* TreePool::node(identifier): position of the record, 0 for nullptr
node(a, id) == nodeFrom(a, id, 1)

\* TreeNode::next(): the record that follows this header
next(pos) == pos + 1

RECURSIVE SkipSubtrees(_, _, _)
\* the position reached from pos after k complete subtrees; Len(a)+2 when the
\* walk leaves the used region (the code then reads stale bytes)
SkipSubtrees(a, pos, k) ==
  IF k <= 0 THEN pos
  ELSE IF pos > Len(a) THEN Len(a) + 2
  ELSE SkipSubtrees(a, SkipSubtrees(a, pos + 1, a[pos].nc), k - 1)

\* TreeNode::nextSibling(): the position after this node's whole subtree
nextSibling(a, pos) == Min(SkipSubtrees(a, pos, 1), lastPos(a))

\* some node's child count promises more records than the arena holds
Overrun(a) == \E q \in 1 .. Len(a) : SkipSubtrees(a, q, 1) > lastPos(a)

\* TreeNode::childTreeAtIndex(i): position of the i-th child
childTreeAtIndex(a, pos, i) == Min(SkipSubtrees(a, pos + 1, i), lastPos(a))

\* TreeNode::parentTree(): the closest enclosing node, 0 for nullptr
parentTree(a, pos) ==
  LET encl == {q \in 1 .. (pos - 1) : nextSibling(a, q) > pos}
  IN IF encl = {} THEN 0 ELSE CHOOSE q \in encl : \A r \in encl : r <= q

\* TreeNode::indexOfChildByIdentifier / indexInParent: -1 when not found
indexOfChild(a, ppos, cpos) ==
  LET idx == {i \in 0 .. (a[ppos].nc - 1) : childTreeAtIndex(a, ppos, i) = cpos}
  IN IF idx = {} THEN -1 ELSE CHOOSE i \in idx : \A j \in idx : i <= j

\* identifiers of the children of the node at pos, in order
ChildIds(a, pos) ==
  [i \in 1 .. (IF a[pos].nc > 0 THEN a[pos].nc ELSE 0) |->
     LET c == childTreeAtIndex(a, pos, i - 1)
     IN IF c <= Len(a) THEN a[c].id ELSE -1]

\* TreeNode::retain()
retain(a, pos) == [a EXCEPT ![pos].rc = @ + 1]

setNumberOfChildren(a, pos, d) == [a EXCEPT ![pos].nc = @ + d]

\* TreePool::move(source, destination): the source subtree goes right before
\* what stands at destination; nothing moves when destination is inside it
move(a, src, dst) ==
  LET end == nextSibling(a, src)
  IN IF src = dst \/ (dst > src /\ dst < end) THEN a
     ELSE IF dst >= end
          THEN Sub(a, 1, src - 1) \o Sub(a, end, dst - 1) \o Sub(a, src, end - 1)
               \o Sub(a, dst, Len(a))
          ELSE Sub(a, 1, dst - 1) \o Sub(a, src, end - 1) \o Sub(a, dst, src - 1)
               \o Sub(a, end, Len(a))

RECURSIVE releaseSubtree(_)
RECURSIVE releaseChildren(_, _)
\* TreeNode::releaseChildren() on a subtree s (s[1] is its root): what is left
\* of the children from position pos on once each has been released
releaseChildren(s, pos) ==
  IF pos > Len(s) THEN << >>
  ELSE LET end == nextSibling(s, pos)
       IN releaseSubtree(Sub(s, pos, end - 1)) \o releaseChildren(s, end)

\* TreeNode::release() on the root of the subtree s: the records that survive
releaseSubtree(s) ==
  IF s[1].rc - 1 <= 0
  THEN releaseChildren(s, 2)
  ELSE [s EXCEPT ![1].rc = @ - 1]

\* TreeNode::releaseChildrenAndDestroy() on the node at pos
releaseChildrenAndDestroy(a, pos) ==
  LET end == nextSibling(a, pos)
  IN Sub(a, 1, pos - 1) \o releaseChildren(Sub(a, pos, end - 1), 2) \o Sub(a, end, Len(a))

\* TreeNode::release() on the node at pos
release(a, pos) ==
  LET end == nextSibling(a, pos)
  IN Sub(a, 1, pos - 1) \o releaseSubtree(Sub(a, pos, end - 1)) \o Sub(a, end, Len(a))

\* identifiers in use, and TreePool::generateIdentifier()
UsedIds(a) == {a[q].id : q \in 1 .. Len(a)}
generateIdentifier(a) ==
  IF NodeIds \subseteq UsedIds(a) THEN -1
  ELSE CHOOSE i \in NodeIds \ UsedIds(a) : \A j \in NodeIds \ UsedIds(a) : i <= j


----------------------------------------------------------------------------
(* TreeReference: the arena after each method.  A result is [a, ok]; ok is  *)
(* FALSE when an assert of the code fails or a null node is dereferenced.   *)
(* Handles are named by the identifier they hold.                           *)

Ret(a) == [a |-> a, ok |-> TRUE]
Fail(a) == [a |-> a, ok |-> FALSE]

InArena(a, id) == node(a, id) # 0

\* isAllocationFailure() of the node a handle holding id refers to
isAllocationFailure(a, id) == IF id = StaticId THEN TRUE ELSE a[node(a, id)].af

\* setIdentifierAndRetain(newId), as run by the copy constructor, setTo and
\* TreeReference(TreeNode *); an undefined handle (-1) retains nothing
setIdentifierAndRetain(a, id) ==
  IF id < 0 \/ id = StaticId THEN a ELSE retain(a, node(a, id))

\* ~TreeReference() of a handle holding id, run on the result r
destructor(r, id) ==
  IF ~r.ok \/ id < 0 \/ id = StaticId THEN r
  ELSE IF ~InArena(r.a, id) THEN Fail(r.a)
  ELSE Ret(release(r.a, node(r.a, id)))

\* x.node()->retain(), x.node()->release(), x.node() moved, for a handle x holding id
retainNode(a, id) == retain(a, node(a, id))
releaseNode(a, id) == release(a, node(a, id))
moveNode(a, id, dst) == move(a, node(a, id), dst)
moveToLast(a, id) == move(a, node(a, id), lastPos(a))

\* incrementNumberOfChildren() / decrementNumberOfChildren() through a handle
\* holding id; `if (p.isDefined())` guards the calls made on a parent
incrementNumberOfChildren(a, id) == setNumberOfChildren(a, node(a, id), 1)
decrementNumberOfChildren(a, id) ==
  IF id < 0 THEN a ELSE setNumberOfChildren(a, node(a, id), -1)

\* parent(): the identifier the returned handle holds, -1 when undefined
parent(a, id) ==
  IF parentTree(a, node(a, id)) = 0 THEN -1 ELSE a[parentTree(a, node(a, id))].id

\* node()->indexInParent(), p.node()->indexOfChildByIdentifier(identifier())
indexInParent(a, id) ==
  IF parentTree(a, node(a, id)) = 0 THEN -1
  ELSE indexOfChild(a, parentTree(a, node(a, id)), node(a, id))

\* treeChildAtIndex(i): the identifier the returned handle holds, -1 when the
\* walk ends outside the used region
treeChildAtIndex(a, id, i) ==
  IF childTreeAtIndex(a, node(a, id), i) > Len(a) THEN -1
  ELSE a[childTreeAtIndex(a, node(a, id), i)].id

\* addChildAtIndex, lines 105-111, on the arena where t is already retained
addChildAtIndexMove(a, self, t, index) ==
  incrementNumberOfChildren(
    move(a, node(a, t), childTreeAtIndex(a, node(a, self), index)), self)

\* addChildAtIndex(t, index), the body; t is the by-value parameter
addChildAtIndexBody(a, self, t, index) ==
  IF a[node(a, self)].af THEN Ret(a)
  ELSE IF ~(index >= 0 /\ index <= a[node(a, self)].nc) THEN Fail(a)
  ELSE Ret(addChildAtIndexMove(retainNode(a, t), self, t, index))

\* addChildAtIndex(t, index) with the copy and the destruction of its parameter
addChildAtIndex(a, self, t, index) ==
  destructor(addChildAtIndexBody(setIdentifierAndRetain(a, t), self, t, index), t)

\* addChildAtIndex(t, index), lines 100-111, for a t on the canonical failure
\* node: the node is not a record of the arena, so the move of line 110 brings
\* no record under self, and line 111 counts a child all the same
addChildAtIndexOutside(a, self, index) ==
  IF a[node(a, self)].af THEN Ret(a)
  ELSE IF ~(index >= 0 /\ index <= a[node(a, self)].nc) THEN Fail(a)
  ELSE Ret(incrementNumberOfChildren(a, self))

\* removeChild without line 117: the child count is left as it was
removeChildKeepCount(a, self) ==
  IF InArena(a, self) THEN Ret(a) ELSE Fail(a)

\* removeChild, line 117, on the arena left by lines 115-116
removeChildDecrement(a, self) ==
  IF InArena(a, self) THEN Ret(decrementNumberOfChildren(a, self)) ELSE Fail(a)

\* removeChild(t)
removeChild(a, self, t) ==
  destructor(
    removeChildDecrement(
      releaseNode(moveToLast(setIdentifierAndRetain(a, t), t), t), self), t)

\* lines 163-174 with the failure node put back as the first child of p
\* rather than at indexInParentNode
replaceWithAllocationFailureAtFront(a, self, p, indexInParentNode, currentRetainCount) ==
  IF Len(a) >= Capacity THEN Fail(a)
  ELSE IF p < 0 THEN Ret(Append(a, Rec(self, currentRetainCount, 0, TRUE)))
  ELSE IF indexInParentNode < 0 THEN Fail(a)
  ELSE addChildAtIndex(Append(a, Rec(self, currentRetainCount - 1, 0, TRUE)),
                       p, self, 0)

\* lines 163-174 without line 165: the failure node keeps the identifier the
\* pool generated for it
replaceWithAllocationFailureRenamed(a, self, p, indexInParentNode, currentRetainCount) ==
  IF Len(a) >= Capacity THEN Fail(a)
  ELSE IF p < 0
    THEN Ret(Append(a, Rec(generateIdentifier(a), currentRetainCount, 0, TRUE)))
  ELSE IF indexInParentNode < 0 THEN Fail(a)
  ELSE addChildAtIndex(
         Append(a, Rec(generateIdentifier(a), currentRetainCount - 1, 0, TRUE)),
         p, generateIdentifier(a), indexInParentNode)

\* lines 163-174 with line 169 setting the counter to currentRetainCount, as
\* line 173 does, although the parent retains the node again
replaceWithAllocationFailureFullCount(a, self, p, indexInParentNode, currentRetainCount) ==
  IF Len(a) >= Capacity THEN Fail(a)
  ELSE IF p < 0 THEN Ret(Append(a, Rec(self, currentRetainCount, 0, TRUE)))
  ELSE IF indexInParentNode < 0 THEN Fail(a)
  ELSE addChildAtIndex(Append(a, Rec(self, currentRetainCount, 0, TRUE)),
                       p, self, indexInParentNode)

\* replaceWithAllocationFailure, lines 163-174: the failure node takes the
\* identifier and the retain count, and goes back under the parent p
replaceWithAllocationFailureSubstitute(a, self, p, indexInParentNode, currentRetainCount) ==
  IF Len(a) >= Capacity THEN Fail(a)
  ELSE IF p < 0 THEN Ret(Append(a, Rec(self, currentRetainCount, 0, TRUE)))
  ELSE IF indexInParentNode < 0 THEN Fail(a)
  ELSE addChildAtIndex(Append(a, Rec(self, currentRetainCount - 1, 0, TRUE)),
                       p, self, indexInParentNode)

\* lines 146-174 without lines 152-154: the parent's child count is not
\* lowered before the failure node is added back
replaceWithAllocationFailureKeepCount(a, self, p) ==
  replaceWithAllocationFailureSubstitute(
    releaseChildrenAndDestroy(moveToLast(a, self), node(moveToLast(a, self), self)),
    self, p, indexInParent(a, self), a[node(a, self)].rc)

\* lines 146-174 with the copy of line 163 made before the node is destroyed
\* at line 157: a full pool has no room for it
replaceWithAllocationFailureCopyFirst(a, self, p) ==
  IF Len(a) >= Capacity \/ generateIdentifier(a) < 0 THEN Fail(a)
  ELSE replaceWithAllocationFailureSubstitute(
         releaseChildrenAndDestroy(
           decrementNumberOfChildren(moveToLast(a, self), p),
           node(decrementNumberOfChildren(moveToLast(a, self), p), self)),
         self, p, indexInParent(a, self), a[node(a, self)].rc)

\* replaceWithAllocationFailure, lines 146-174, p being the handle on the parent
replaceWithAllocationFailureBody(a, self, p) ==
  replaceWithAllocationFailureSubstitute(
    releaseChildrenAndDestroy(
      decrementNumberOfChildren(moveToLast(a, self), p),
      node(decrementNumberOfChildren(moveToLast(a, self), p), self)),
    self, p, indexInParent(a, self), a[node(a, self)].rc)

\* replaceWithAllocationFailure()
replaceWithAllocationFailure(a, self) ==
  destructor(
    replaceWithAllocationFailureBody(
      setIdentifierAndRetain(a, parent(a, self)), self, parent(a, self)),
    parent(a, self))

\* replaceChildAtIndex, lines 138-141, oldChild being the handle of line 137
replaceChildAtIndexMove(a, newChild, oldChild) ==
  Ret(releaseNode(
        moveToLast(
          retainNode(moveNode(a, newChild, next(node(a, oldChild))), newChild),
          oldChild),
        oldChild))

\* replaceChildAtIndex, lines 136-141, p being the handle on newChild's parent
replaceChildAtIndexOld(a, self, oldChildIndex, newChild, p) ==
  IF ~(oldChildIndex >= 0 /\ oldChildIndex < a[node(a, self)].nc) THEN Fail(a)
  ELSE IF treeChildAtIndex(a, self, oldChildIndex) < 0 THEN Fail(a)
  ELSE destructor(
         destructor(
           replaceChildAtIndexMove(
             setIdentifierAndRetain(a, treeChildAtIndex(a, self, oldChildIndex)),
             newChild, treeChildAtIndex(a, self, oldChildIndex)),
           treeChildAtIndex(a, self, oldChildIndex)),
         p)

\* replaceChildAtIndex, lines 132-141
replaceChildAtIndexBody(a, self, oldChildIndex, newChild) ==
  replaceChildAtIndexOld(
    decrementNumberOfChildren(
      setIdentifierAndRetain(a, parent(a, newChild)), parent(a, newChild)),
    self, oldChildIndex, newChild, parent(a, newChild))

\* replaceChildAtIndex, lines 128-141, on the arena where newChild is retained
replaceChildAtIndexBranch(a, self, oldChildIndex, newChild) ==
  IF isAllocationFailure(a, newChild)
  THEN replaceWithAllocationFailure(a, self)
  ELSE replaceChildAtIndexBody(a, self, oldChildIndex, newChild)

\* replaceChildAtIndex(oldChildIndex, newChild)
replaceChildAtIndex(a, self, oldChildIndex, newChild) ==
  destructor(
    replaceChildAtIndexBranch(setIdentifierAndRetain(a, newChild), self,
                              oldChildIndex, newChild),
    newChild)

\* replaceWith, lines 121-124, on the arena where t is retained
replaceWithBody(a, self, t, p) ==
  destructor(
    IF p < 0 THEN Ret(a)
    ELSE replaceChildAtIndex(setIdentifierAndRetain(a, p), p, indexInParent(a, self), t),
    p)

\* replaceWith(t)
replaceWith(a, self, t) ==
  destructor(
    replaceWithBody(setIdentifierAndRetain(a, t), self, t, parent(a, self)), t)

\* swapChildren, lines 187-189
swapChildrenMove(a, firstChildNode, secondChild) ==
  moveNode(move(a, firstChildNode, next(node(a, secondChild))), secondChild,
           firstChildNode)

\* swapChildren, lines 183-189
swapChildrenBody(a, self, firstChildIndex, secondChildIndex) ==
  IF treeChildAtIndex(a, self, secondChildIndex) < 0 THEN Fail(a)
  ELSE destructor(
         destructor(
           Ret(swapChildrenMove(
                 setIdentifierAndRetain(
                   setIdentifierAndRetain(a, treeChildAtIndex(a, self, firstChildIndex)),
                   treeChildAtIndex(a, self, secondChildIndex)),
                 childTreeAtIndex(a, node(a, self), firstChildIndex),
                 treeChildAtIndex(a, self, secondChildIndex))),
           treeChildAtIndex(a, self, secondChildIndex)),
         treeChildAtIndex(a, self, firstChildIndex))

\* swapChildren(i, j)
swapChildren(a, self, i, j) ==
  IF ~(i >= 0 /\ i < a[node(a, self)].nc /\ j >= 0 /\ j < a[node(a, self)].nc)
  THEN Fail(a)
  ELSE IF i = j THEN Ret(a)
  ELSE swapChildrenBody(a, self, IF i < j THEN i ELSE j, IF i > j THEN i ELSE j)

RECURSIVE copyRecords(_, _)
\* TreePool::deepCopy: the records of s appended to a under fresh identifiers;
\* the copied root waits for its handle, every other copy is held by its parent
copyRecords(a, s) ==
  IF s = << >> THEN a
  ELSE copyRecords(Append(a, Rec(generateIdentifier(a), 1, Head(s).nc, Head(s).af)), Tail(s))

\* clone() wrapping myNode instead of nodeCopy at line 46: no copy is made
\* and the returned handle holds the original
cloneShared(a, self) ==
  IF isAllocationFailure(a, self) THEN [a |-> a, id |-> StaticId]
  ELSE [a |-> retainNode(a, self), id |-> self]

\* clone() wrapping nullptr when the copy does not fit: TreeReference(TreeNode *)
\* then leaves the handle undefined (line 200)
cloneUndefined(a, self) ==
  IF isAllocationFailure(a, self) THEN [a |-> a, id |-> StaticId]
  ELSE LET sp == node(a, self)
           s  == Sub(a, sp, nextSibling(a, sp) - 1)
       IN IF Len(a) + Len(s) > Capacity THEN [a |-> a, id |-> -1]
          ELSE [a |-> copyRecords(a, s), id |-> generateIdentifier(a)]

\* clone(): [a, id] the arena and the identifier the returned handle holds
clone(a, self) ==
  IF isAllocationFailure(a, self) THEN [a |-> a, id |-> StaticId]
  ELSE LET sp == node(a, self)
           s  == Sub(a, sp, nextSibling(a, sp) - 1)
       IN IF Len(a) + Len(s) > Capacity THEN [a |-> a, id |-> StaticId]
          ELSE [a |-> copyRecords(a, s), id |-> generateIdentifier(a)]


----------------------------------------------------------------------------
(* The client: a state machine over the public interface                   *)

NoArg == -1

Op(op, self, t, i, j) ==
  [op |-> op, self |-> self, t |-> t, i |-> i, j |-> j, a |-> arena, h |-> handles]

Held(id) == handles[id] > 0
RECURSIVE SumTo(_, _)
SumTo(h, n) == IF n < 0 THEN 0 ELSE h[n] + SumTo(h, n - 1)
TotalHandles(h) == SumTo(h, Capacity)

\* handles the client may call methods on: held, and referring to a record
Usable(id) == id \in NodeIds /\ Held(id) /\ InArena(arena, id)

\* the data model's invariants: depth-first forest, distinct identifiers, no
\* children under a failure node
WellFormed(a) ==
  /\ ~Overrun(a)
  /\ \A q \in 1 .. Len(a) : a[q].nc >= 0 /\ (a[q].af => a[q].nc = 0)
  /\ \A q, r \in 1 .. Len(a) : a[q].id = a[r].id => q = r

\* owners of the record at pos: the handles on it, and its parent edge
Owners(a, h, pos) == h[a[pos].id] + (IF parentTree(a, pos) # 0 THEN 1 ELSE 0)

\* the state the data model describes: well-formed arena, every retain count
\* equal to the number of owners, every handle on a record
Consistent(a, h) ==
  /\ WellFormed(a)
  /\ \A q \in 1 .. Len(a) : a[q].rc = Owners(a, h, q)
  /\ \A id \in NodeIds : h[id] > 0 => InArena(a, id)

\* `last` is the observation of one call: the method, its arguments and the
\* arena and handles it started from.  It is dropped (Forget) before the next
\* call, so that a state is explored once, not once per call that led to it.
NoCall ==
  [op |-> "none", self |-> NoArg, t |-> NoArg, i |-> NoArg, j |-> NoArg,
   a |-> << >>, h |-> << >>]

\* The program runs until an assert fails or it crashes.
Running == fault = "none" /\ last = NoCall

\* Methods are followed from the states the data model describes.  Once a call
\* has left them the records no longer say what the trees are; the run is then
\* followed through the steps that do not read the tree shape: the handles go
\* out of scope (with the destructor's asserts), or the program crashes.
Live == Running /\ Consistent(arena, handles)

\* the arena and the fault flag after a method that returned r
Finish(r) ==
  /\ arena' = IF r.ok THEN r.a ELSE arena
  /\ fault' = IF r.ok THEN "none" ELSE "assert"

Init ==
  /\ arena = << >>
  /\ handles = [id \in HandleIds |-> 0]
  /\ fault = "none"
  /\ last = NoCall

\* TreeReference(): createTreeNode<T>() gives a new record held once, or the
\* canonical failure node when the pool is full
New ==
  /\ TotalHandles(handles) < MaxHandles
  /\ Live
  /\ LET id == IF Len(arena) < Capacity THEN generateIdentifier(arena) ELSE StaticId
     IN /\ arena' = IF id = StaticId THEN arena ELSE Append(arena, Rec(id, 1, 0, FALSE))
        /\ handles' = [handles EXCEPT ![id] = @ + 1]
        /\ last' = Op("new", id, NoArg, NoArg, NoArg)
  /\ UNCHANGED fault

\* TreeReference(const TreeReference &) and TreeReference(TreeReference &&):
\* both run setTo(tr), and the source handle stays alive
CopyHandle(id) ==
  /\ Held(id) /\ (id = StaticId \/ InArena(arena, id))
  /\ TotalHandles(handles) < MaxHandles
  /\ Live
  /\ handles' = [handles EXCEPT ![id] = @ + 1]
  /\ Finish(Ret(setIdentifierAndRetain(arena, id)))
  /\ last' = Op("copy", id, NoArg, NoArg, NoArg)

\* operator=: setTo(tr) on a handle that held `old`
Assign(old, id) ==
  /\ Held(old) /\ Held(id) /\ old # id
  /\ id = StaticId \/ InArena(arena, id)
  /\ Live
  /\ handles' = [handles EXCEPT ![old] = @ - 1, ![id] = @ + 1]
  /\ Finish(Ret(setIdentifierAndRetain(arena, id)))
  /\ last' = Op("assign", old, id, NoArg, NoArg)

\* TreeReference(TreeReference &&): setTo(tr) as for a copy; tr keeps its
\* identifier and stays alive until its own destructor runs
MoveHandle(id) ==
  /\ Held(id) /\ (id = StaticId \/ InArena(arena, id))
  /\ TotalHandles(handles) < MaxHandles
  /\ Live
  /\ handles' = [handles EXCEPT ![id] = @ + 1]
  /\ Finish(Ret(setIdentifierAndRetain(arena, id)))
  /\ last' = Op("move", id, NoArg, NoArg, NoArg)

\* operator=(TreeReference &&): setTo(tr) on a handle that held `old`
MoveAssign(old, id) ==
  /\ Held(old) /\ Held(id) /\ old # id
  /\ id = StaticId \/ InArena(arena, id)
  /\ Live
  /\ handles' = [handles EXCEPT ![old] = @ - 1, ![id] = @ + 1]
  /\ Finish(Ret(setIdentifierAndRetain(arena, id)))
  /\ last' = Op("moveAssign", old, id, NoArg, NoArg)

\* ~TreeReference()
Destroy(id) ==
  /\ Running
  /\ Held(id)
  /\ handles' = [handles EXCEPT ![id] = @ - 1]
  /\ Finish(destructor(Ret(arena), id))
  /\ last' = Op("destroy", id, NoArg, NoArg, NoArg)

\* treeChildAtIndex(i): a handle on the i-th child
TreeChildAtIndex(self, i) ==
  /\ Usable(self)
  /\ TotalHandles(handles) < MaxHandles
  /\ i >= 0 /\ i < arena[node(arena, self)].nc
  /\ childTreeAtIndex(arena, node(arena, self), i) <= Len(arena)
  /\ Live
  /\ LET c == arena[childTreeAtIndex(arena, node(arena, self), i)].id
     IN /\ handles' = [handles EXCEPT ![c] = @ + 1]
        /\ Finish(Ret(setIdentifierAndRetain(arena, c)))
        /\ last' = Op("childAt", self, c, i, NoArg)

\* The receiver of a hierarchy method is a handle the client holds (c = -1) or
\* the temporary that via.treeChildAtIndex(c) returns, which lives for the call:
\* retained before the method runs, destroyed after it.
Receiver(via, c) ==
  /\ Usable(via)
  /\ c >= 0 => c < arena[node(arena, via)].nc /\ treeChildAtIndex(arena, via, c) >= 0
Self(via, c) == IF c < 0 THEN via ELSE treeChildAtIndex(arena, via, c)
Begin(via, c) == IF c < 0 THEN arena ELSE setIdentifierAndRetain(arena, Self(via, c))
End(via, c, r) == IF c < 0 THEN r ELSE destructor(r, Self(via, c))

\* an argument handle: held by the client, on a record or on the canonical failure node
Argument(t) == Usable(t) \/ (t = StaticId /\ Held(t))

AddChildAtIndex(via, c, t, i) ==
  /\ Receiver(via, c) /\ Usable(t)
  /\ i >= 0 /\ i <= arena[node(arena, Self(via, c))].nc
  /\ Live
  /\ Finish(End(via, c, addChildAtIndex(Begin(via, c), Self(via, c), t, i)))
  /\ last' = Op("addChildAtIndex", Self(via, c), t, i, NoArg)
  /\ UNCHANGED handles

\* addChildAtIndex with a handle on the canonical failure node, as returned by
\* TreeReference() when the pool is full.  TreePool::move is handed a source
\* outside the buffer: either the buffer is left as it was, or the bytes
\* between the two addresses are overwritten ("wild").
AddFailureChild(via, c, i) ==
  /\ Receiver(via, c) /\ Held(StaticId)
  /\ i >= 0 /\ i <= arena[node(arena, Self(via, c))].nc
  /\ Live
  /\ \/ Finish(End(via, c, addChildAtIndexOutside(Begin(via, c), Self(via, c), i)))
     \/ ~arena[node(arena, Self(via, c))].af /\ fault' = "wild" /\ UNCHANGED arena
  /\ last' = Op("addFailureChild", Self(via, c), StaticId, i, NoArg)
  /\ UNCHANGED handles

RemoveChild(via, c, t) ==
  /\ Receiver(via, c) /\ Usable(t)
  /\ Live
  /\ Finish(End(via, c, removeChild(Begin(via, c), Self(via, c), t)))
  /\ last' = Op("removeChild", Self(via, c), t, NoArg, NoArg)
  /\ UNCHANGED handles

ReplaceChildAtIndex(via, c, k, t) ==
  /\ Receiver(via, c) /\ Argument(t)
  /\ k >= 0 /\ k < arena[node(arena, Self(via, c))].nc
  /\ Live
  /\ Finish(End(via, c, replaceChildAtIndex(Begin(via, c), Self(via, c), k, t)))
  /\ last' = Op("replaceChildAtIndex", Self(via, c), t, k, NoArg)
  /\ UNCHANGED handles

ReplaceWith(via, c, t) ==
  /\ Receiver(via, c) /\ Argument(t)
  /\ Live
  /\ Finish(End(via, c, replaceWith(Begin(via, c), Self(via, c), t)))
  /\ last' = Op("replaceWith", Self(via, c), t, NoArg, NoArg)
  /\ UNCHANGED handles

SwapChildren(via, c, i, j) ==
  /\ Receiver(via, c)
  /\ i >= 0 /\ i < arena[node(arena, Self(via, c))].nc
  /\ j >= 0 /\ j < arena[node(arena, Self(via, c))].nc
  /\ Live
  /\ Finish(End(via, c, swapChildren(Begin(via, c), Self(via, c), i, j)))
  /\ last' = Op("swapChildren", Self(via, c), NoArg, i, j)
  /\ UNCHANGED handles

ReplaceWithAllocationFailure(via, c) ==
  /\ Receiver(via, c)
  /\ Live
  /\ Finish(End(via, c, replaceWithAllocationFailure(Begin(via, c), Self(via, c))))
  /\ last' = Op("replaceWithAllocationFailure", Self(via, c), NoArg, NoArg, NoArg)
  /\ UNCHANGED handles

Clone(self) ==
  /\ Held(self) /\ (self = StaticId \/ InArena(arena, self))
  /\ TotalHandles(handles) < MaxHandles
  /\ Live
  /\ LET c == clone(arena, self)
     IN /\ handles' = [handles EXCEPT ![c.id] = @ + 1]
        /\ Finish(Ret(c.a))
        /\ last' = Op("clone", self, c.id, NoArg, NoArg)

\* a method called through a handle whose record is gone dereferences nullptr
UseDangling(id) ==
  /\ Running
  /\ id \in NodeIds /\ Held(id) /\ ~InArena(arena, id)
  /\ fault' = "null"
  /\ last' = Op("useDangling", id, NoArg, NoArg, NoArg)
  /\ UNCHANGED <<arena, handles>>

\* a walk that leaves the used region reads stale bytes: the run may go on
\* (the walk stops at last()) or crash
StaleRead ==
  /\ Running
  /\ Overrun(arena)
  /\ fault' = "stale"
  /\ last' = Op("staleRead", NoArg, NoArg, NoArg, NoArg)
  /\ UNCHANGED <<arena, handles>>


Forget ==
  /\ last # NoCall
  /\ last' = NoCall
  /\ UNCHANGED <<arena, handles, fault>>

\* the handles the client holds on records, and the receivers they give
HeldNodes == IF Live THEN {id \in NodeIds : Usable(id)} ELSE {}
ChildrenOf(via) == -1 .. (arena[node(arena, via)].nc - 1)
IndicesOf(via, c) == 0 .. arena[node(arena, Self(via, c))].nc

Next ==
  \/ Forget
  \/ New
  \/ \E id \in HandleIds : CopyHandle(id)
  \/ \E old, id \in HandleIds : Assign(old, id)
  \/ \E id \in HandleIds : MoveHandle(id)
  \/ \E old, id \in HandleIds : MoveAssign(old, id)
  \/ \E id \in HandleIds : Destroy(id)
  \/ \E self \in HeldNodes : \E i \in IndicesOf(self, -1) : TreeChildAtIndex(self, i)
  \/ \E via \in HeldNodes : \E c \in ChildrenOf(via) : \E t \in HeldNodes :
       \E i \in IndicesOf(via, c) : AddChildAtIndex(via, c, t, i)
  \/ \E via \in HeldNodes : \E c \in ChildrenOf(via) : \E i \in IndicesOf(via, c) :
       AddFailureChild(via, c, i)
  \/ \E via \in HeldNodes : \E c \in ChildrenOf(via) : \E t \in HeldNodes :
       RemoveChild(via, c, t)
  \/ \E via \in HeldNodes : \E c \in ChildrenOf(via) : \E t \in HandleIds :
       \E k \in IndicesOf(via, c) : ReplaceChildAtIndex(via, c, k, t)
  \/ \E via \in HeldNodes : \E c \in ChildrenOf(via) : \E t \in HandleIds :
       ReplaceWith(via, c, t)
  \/ \E via \in HeldNodes : \E c \in ChildrenOf(via) : \E i, j \in IndicesOf(via, c) :
       SwapChildren(via, c, i, j)
  \/ \E via \in HeldNodes : \E c \in ChildrenOf(via) : ReplaceWithAllocationFailure(via, c)
  \/ \E self \in HandleIds : Clone(self)
  \/ \E id \in NodeIds : UseDangling(id)
  \/ StaleRead

Spec == Init /\ [][Next]_vars

----------------------------------------------------------------------------
(* Properties.  A state with last.op = m is the state right after a call of *)
(* m; last.a and last.h are the arena and the handles the call started from. *)

Pre == last.a
PreH == last.h
Returned(op) == last.op = op /\ fault = "none"

\* the records of the subtree of the node holding id, in arena order
Subtree(a, id) == Sub(a, node(a, id), nextSibling(a, node(a, id)) - 1)
\* the identifiers of the children of the node holding id, in order
ChildrenIds(a, id) == ChildIds(a, node(a, id))
NumberOfChildren(a, id) == a[node(a, id)].nc
\* x is y or an ancestor of y
Encloses(a, x, y) ==
  node(a, x) <= node(a, y) /\ node(a, y) < nextSibling(a, node(a, x))
Without(s, x) == SelectSeq(s, LAMBDA e : e # x)

\* every node is followed by exactly childCount complete child subtrees
DepthFirstForest(a) ==
  \A q \in 1 .. Len(a) : a[q].nc >= 0 /\ SkipSubtrees(a, q, 1) <= lastPos(a)

\* C1: after every completed handle operation the arena is a well-formed
\* depth-first forest; stated here for the case the claim names,
\* addChildAtIndex(c, i) with a child c that already has a parent (c being
\* neither the receiver nor one of its ancestors).
C1_ForestAfterAddChild ==
  (Returned("addChildAtIndex") /\ ~Encloses(Pre, last.t, last.self))
    => DepthFirstForest(arena)

\* C2: between handle operations the retain count of every live node is the
\* number of live handles holding its identifier, plus one if it has a parent;
\* stated here for the case the claim names, replaceChildAtIndex(k, newChild)
\* with a newChild that already has a parent.
C2_RetainCountIsOwners ==
  (/\ Returned("replaceChildAtIndex")
   /\ ~isAllocationFailure(Pre, last.t)
   /\ parent(Pre, last.t) >= 0
   /\ treeChildAtIndex(Pre, last.self, last.i) # last.t
   /\ ~Encloses(Pre, last.t, last.self))
    => \A q \in 1 .. Len(arena) : arena[q].rc = Owners(arena, handles, q)

\* C3: no operation destroys a node while a live handle holds its identifier:
\* every held identifier resolves to a record with retainCount >= 1; stated
\* here for the case the claim names, removeChild(c) with a c that is not a
\* child of the receiver.
C3_HandlesResolve ==
  (last.op = "removeChild" /\ last.t # last.self)
    => /\ fault = "none"
       /\ \A id \in NodeIds :
            handles[id] > 0 => InArena(arena, id) /\ arena[node(arena, id)].rc >= 1

\* C4: after p.addChildAtIndex(c, i) on a non-sentinel p, childAt(i) is c, the
\* child count has grown by one and the other children keep their relative
\* order, wherever c was before (c being neither p nor one of its ancestors).
C4_AddChildAtIndex ==
  (/\ last.op = "addChildAtIndex"
   /\ ~Pre[node(Pre, last.self)].af
   /\ ~Encloses(Pre, last.t, last.self))
    => /\ fault = "none"
       /\ treeChildAtIndex(arena, last.self, last.i) = last.t
       /\ NumberOfChildren(arena, last.self) = NumberOfChildren(Pre, last.self) + 1
       /\ Without(ChildrenIds(arena, last.self), last.t)
            = Without(ChildrenIds(Pre, last.self), last.t)

\* C6: after p.swapChildren(i, j), i # j, the children formerly at i and j
\* have exchanged their indices, every other child keeps its index, the child
\* count is unchanged and both swapped subtrees keep exactly their records.
C6_SwapChildren ==
  (last.op = "swapChildren" /\ last.i # last.j)
    => /\ fault = "none"
       /\ NumberOfChildren(arena, last.self) = NumberOfChildren(Pre, last.self)
       /\ ChildrenIds(arena, last.self)
            = [ChildrenIds(Pre, last.self) EXCEPT
                 ![last.i + 1] = ChildrenIds(Pre, last.self)[last.j + 1],
                 ![last.j + 1] = ChildrenIds(Pre, last.self)[last.i + 1]]
       /\ \A c \in {ChildrenIds(Pre, last.self)[last.i + 1],
                    ChildrenIds(Pre, last.self)[last.j + 1]} :
            Subtree(arena, c) = Subtree(Pre, c)

\* C7: swapChildren is self-inverse: a second p.swapChildren(i, j) right after
\* the first restores the records of the arena as they were; and
\* swapChildren(i, i) changes nothing.
C7_SwapChildrenTwice ==
  (last.op = "swapChildren")
    => /\ fault = "none"
       /\ swapChildren(arena, last.self, last.i, last.j) = Ret(Pre)

\* C8: after p.replaceChildAtIndex(k, newChild) with a defined, non-failure,
\* parentless newChild (not the root of p's own tree), newChild is the child
\* at k, the child count and the other children are unchanged, and the old
\* child with its whole subtree is no longer under p, and is destroyed when
\* no handle holds it.
C8_ReplaceChildAtIndex ==
  (/\ last.op = "replaceChildAtIndex"
   /\ ~isAllocationFailure(Pre, last.t)
   /\ parent(Pre, last.t) < 0
   /\ ~Encloses(Pre, last.t, last.self))
    => /\ fault = "none"
       /\ NumberOfChildren(arena, last.self) = NumberOfChildren(Pre, last.self)
       /\ ChildrenIds(arena, last.self)
            = [ChildrenIds(Pre, last.self) EXCEPT ![last.i + 1] = last.t]
       /\ LET oldChild == ChildrenIds(Pre, last.self)[last.i + 1]
          IN /\ \A q \in 1 .. Len(Subtree(Pre, oldChild)) :
                  LET d == Subtree(Pre, oldChild)[q].id
                  IN InArena(arena, d) => ~Encloses(arena, last.self, d)
             /\ PreH[oldChild] = 0 => ~InArena(arena, oldChild)

\* the identifiers of the subtree of the node holding id
SubtreeIds(a, id) == {Subtree(a, id)[q].id : q \in 1 .. Len(Subtree(a, id))}

\* below root, d has no owner but its parent chain: no handle holds d or a
\* node between root and d
OwnedOnlyThrough(a, h, root, d) ==
  \A e \in SubtreeIds(a, root) : (e # root /\ Encloses(a, e, d)) => h[e] = 0

\* the arena once the last handle on the root `id` has been destroyed: id and
\* every descendant without another owner are gone, the others are still there
Reclaimed(before, h, after, id) ==
  \A d \in SubtreeIds(before, id) :
    InArena(after, d) <=> ~OwnedOnlyThrough(before, h, id, d)

\* C5: p.removeChild(c) on a child c of p lowers the child count by one and
\* keeps the other children in order; and once the last handle on c is gone,
\* c and its descendants without another owner no longer resolve.
C5_RemoveChild ==
  /\ (last.op = "removeChild" /\ parent(Pre, last.t) = last.self)
       => /\ fault = "none"
          /\ NumberOfChildren(arena, last.self) = NumberOfChildren(Pre, last.self) - 1
          /\ ChildrenIds(arena, last.self) = Without(ChildrenIds(Pre, last.self), last.t)
          /\ Subtree(arena, last.t)
               = [Subtree(Pre, last.t) EXCEPT ![1].rc = handles[last.t]]
          /\ handles[last.t] = 1
               => /\ destructor(Ret(arena), last.t).ok
                  /\ Reclaimed(arena, handles, destructor(Ret(arena), last.t).a, last.t)
  /\ (/\ last.op = "destroy"
      /\ Consistent(Pre, PreH)
      /\ last.self # StaticId
      /\ Pre[node(Pre, last.self)].rc = 1)
       => fault = "none" /\ Reclaimed(Pre, handles, arena, last.self)

C5_Witness ==
  /\ Returned("removeChild")
  /\ parent(Pre, last.t) = last.self
  /\ NumberOfChildren(Pre, last.self) >= 2
  /\ NumberOfChildren(Pre, last.t) >= 1
  /\ handles[last.t] = 1

\* C9: p.replaceChildAtIndex(k, newChild) with a failure newChild replaces p
\* itself by a failure node: p keeps its identifier and its handles, reports
\* isAllocationFailure(), has no children (newChild is not under it), and
\* sits at its former index under its parent, whose children are unchanged.
C9_ReplaceByFailure ==
  (last.op = "replaceChildAtIndex" /\ isAllocationFailure(Pre, last.t))
    => /\ fault = "none"
       /\ handles = PreH
       /\ InArena(arena, last.self)
       /\ isAllocationFailure(arena, last.self)
       /\ NumberOfChildren(arena, last.self) = 0
       /\ InArena(arena, last.t) => parent(arena, last.t) # last.self
       /\ parent(arena, last.self) = parent(Pre, last.self)
       /\ indexInParent(arena, last.self) = indexInParent(Pre, last.self)
       /\ parent(Pre, last.self) >= 0
            => ChildrenIds(arena, parent(Pre, last.self))
                 = ChildrenIds(Pre, parent(Pre, last.self))

C9_Witness ==
  /\ Returned("replaceChildAtIndex")
  /\ isAllocationFailure(Pre, last.t)
  /\ indexInParent(Pre, last.self) >= 1
  /\ NumberOfChildren(Pre, last.self) >= 1

\* C10: replaceWithAllocationFailure keeps the identifier: every handle that
\* held it still holds it, it resolves to a live record, and that record is
\* an allocation failure.
C10_IdentifierPreserved ==
  (last.op = "replaceWithAllocationFailure")
    => /\ fault = "none"
       /\ handles = PreH
       /\ InArena(arena, last.self)
       /\ arena[node(arena, last.self)].rc >= 1
       /\ arena[node(arena, last.self)].rc >= handles[last.self]
       /\ isAllocationFailure(arena, last.self)

C10_Witness ==
  /\ Returned("replaceWithAllocationFailure")
  /\ PreH[last.self] = 2
  /\ ~isAllocationFailure(Pre, last.self)
  /\ NumberOfChildren(Pre, last.self) >= 1

\* the record holding id keeps its child count, retain count and kind
SameRecord(before, after, id) ==
  InArena(after, id) /\ after[node(after, id)] = before[node(before, id)]

\* C11: replaceWithAllocationFailure on n replaces n's subtree and nothing
\* else: a parent p of n keeps its child count and its children at their
\* indices, n's slot holding the failure node under n's identifier, every
\* other child keeps its subtree, and every node outside n's former subtree
\* keeps its identifier, child count and retain count.
C11_OnlyFailingSubtree ==
  (last.op = "replaceWithAllocationFailure")
    => /\ fault = "none"
       /\ \A q \in 1 .. Len(Pre) :
            ~Encloses(Pre, last.self, Pre[q].id) => SameRecord(Pre, arena, Pre[q].id)
       /\ parent(Pre, last.self) >= 0
            => /\ NumberOfChildren(arena, parent(Pre, last.self))
                    = NumberOfChildren(Pre, parent(Pre, last.self))
               /\ ChildrenIds(arena, parent(Pre, last.self))
                    = ChildrenIds(Pre, parent(Pre, last.self))
               /\ isAllocationFailure(arena, last.self)
               /\ \A k \in 1 .. Len(ChildrenIds(Pre, parent(Pre, last.self))) :
                    ChildrenIds(Pre, parent(Pre, last.self))[k] # last.self
                      => Subtree(arena, ChildrenIds(Pre, parent(Pre, last.self))[k])
                           = Subtree(Pre, ChildrenIds(Pre, parent(Pre, last.self))[k])

C11_Witness ==
  /\ Returned("replaceWithAllocationFailure")
  /\ parent(Pre, last.self) >= 0
  /\ NumberOfChildren(Pre, parent(Pre, last.self)) >= 2
  /\ NumberOfChildren(Pre, last.self) >= 1

\* the child counts and kinds of a subtree, in pre-order
Shape(s) == [k \in 1 .. Len(s) |-> <<s[k].nc, s[k].af>>]

\* the arena can hold a copy of the subtree of the node holding id
RoomToCopy(a, id) == Len(a) + Len(Subtree(a, id)) <= Capacity

\* C12: n.clone() on a non-sentinel n with room for the copy returns a handle
\* on a subtree of the same shape as n's whose identifiers were all unused
\* before the call, and leaves every record that existed, n's subtree and
\* the retain counts included, as it was.
C12_CloneIsFreshCopy ==
  (last.op = "clone" /\ ~isAllocationFailure(Pre, last.self) /\ RoomToCopy(Pre, last.self))
    => /\ fault = "none"
       /\ last.t \in NodeIds
       /\ InArena(arena, last.t)
       /\ Shape(Subtree(arena, last.t)) = Shape(Subtree(Pre, last.self))
       /\ SubtreeIds(arena, last.t) \cap UsedIds(Pre) = {}
       /\ Cardinality(SubtreeIds(arena, last.t)) = Len(Subtree(Pre, last.self))
       /\ Sub(arena, 1, Len(Pre)) = Pre
       /\ handles = [PreH EXCEPT ![last.t] = @ + 1]

C12_Witness ==
  /\ Returned("clone")
  /\ ~isAllocationFailure(Pre, last.self)
  /\ RoomToCopy(Pre, last.self)
  /\ NumberOfChildren(Pre, last.self) >= 1
  /\ Len(arena) = Len(Pre) + Len(Subtree(Pre, last.self))

RetainCount(a, id) == IF InArena(a, id) THEN a[node(a, id)].rc ELSE 0

\* C14: h = g, h holding a and g holding b # a, raises b's retain count by
\* one and lowers a's by one, a being destroyed when that reaches zero.
C14_AssignReleasesOld ==
  (last.op = "assign" /\ last.self \in NodeIds /\ last.t \in NodeIds)
    => /\ fault = "none"
       /\ RetainCount(arena, last.t) = RetainCount(Pre, last.t) + 1
       /\ RetainCount(arena, last.self) = RetainCount(Pre, last.self) - 1

\* C15: a move construction or move assignment from a handle holding b
\* leaves b's retain count as it was.
C15_MoveKeepsRetainCount ==
  (last.op \in {"move", "moveAssign"}
     /\ (IF last.op = "move" THEN last.self ELSE last.t) \in NodeIds)
    => /\ fault = "none"
       /\ RetainCount(arena, IF last.op = "move" THEN last.self ELSE last.t)
            = RetainCount(Pre, IF last.op = "move" THEN last.self ELSE last.t)

\* C16: with P(X, Y) in a full arena, a third child constructed then (a
\* handle on the failure node) and P.addChildAtIndex(child, 2) end in
\* P(X, Y, Sentinel): P has three children and is no failure node, X and Y
\* are still the children at 0 and 1, and the child at 2 is a failure node.
C16_ExhaustionScenario ==
  (/\ last.op = "addFailureChild"
   /\ Len(Pre) = Capacity
   /\ ~isAllocationFailure(Pre, last.self)
   /\ NumberOfChildren(Pre, last.self) = 2
   /\ last.i = 2)
    => /\ fault = "none"
       /\ NumberOfChildren(arena, last.self) = 3
       /\ ~isAllocationFailure(arena, last.self)
       /\ treeChildAtIndex(arena, last.self, 0) = treeChildAtIndex(Pre, last.self, 0)
       /\ treeChildAtIndex(arena, last.self, 1) = treeChildAtIndex(Pre, last.self, 1)
       /\ treeChildAtIndex(arena, last.self, 2) >= 0
       /\ isAllocationFailure(arena, treeChildAtIndex(arena, last.self, 2))

\* C17: when replaceWithAllocationFailure returns, the failure node under the
\* original identifier has the retain count the node had on entry, with a
\* parent and without one: no handle made inside the call still retains it.
C17_RetainCountRestored ==
  (last.op = "replaceWithAllocationFailure")
    => /\ fault = "none"
       /\ isAllocationFailure(arena, last.self)
       /\ RetainCount(arena, last.self) = RetainCount(Pre, last.self)
       /\ RetainCount(arena, last.self)
            = handles[last.self] + (IF parent(arena, last.self) >= 0 THEN 1 ELSE 0)

C17_Witness ==
  /\ Returned("replaceWithAllocationFailure")
  /\ parent(Pre, last.self) >= 0
  /\ PreH[last.self] = 1
  /\ RetainCount(arena, last.self) = 2

\* C18: on a receiver that is a failure node, addChildAtIndex(c, i) and
\* removeChild(c), c another node, leave the whole arena as it was: positions, child counts
\* and retain counts of every record.
C18_NoOpOnFailureNode ==
  (/\ last.op \in {"addChildAtIndex", "addFailureChild", "removeChild"}
   /\ last.t # last.self
   /\ isAllocationFailure(Pre, last.self))
    => fault = "none" /\ arena = Pre /\ handles = PreH

\* the arena of lines 151-157: the node holding id moved to the end, taken out
\* of its parent's count and destroyed with the children nothing else holds
AfterReclaim(a, id) ==
  releaseChildrenAndDestroy(
    decrementNumberOfChildren(moveToLast(a, id), parent(a, id)),
    node(decrementNumberOfChildren(moveToLast(a, id), parent(a, id)), id))

\* the protocol was run on last.self: by a call of replaceWithAllocationFailure
\* or by replaceChildAtIndex with a failure newChild
ProtocolRan ==
  \/ last.op = "replaceWithAllocationFailure"
  \/ last.op = "replaceChildAtIndex" /\ isAllocationFailure(Pre, last.t)

\* C19: inside replaceWithAllocationFailure the substitution cannot fail:
\* whatever the occupancy on entry, a full arena included, once the node is
\* destroyed there is room and a free identifier for the copy of the failure
\* node, and the call returns with the node back under its parent.
C19_SubstitutionCannotFail ==
  ProtocolRan
    => /\ Len(AfterReclaim(Pre, last.self)) < Capacity
       /\ generateIdentifier(AfterReclaim(Pre, last.self)) >= 0
       /\ fault = "none"
       /\ Len(arena) = Len(AfterReclaim(Pre, last.self)) + 1
       /\ parent(arena, last.self) = parent(Pre, last.self)

C19_Witness ==
  /\ Returned("replaceWithAllocationFailure")
  /\ Len(Pre) = Capacity
  /\ parent(Pre, last.self) >= 0
  /\ Len(arena) = Capacity

\* C20: p.replaceChildAtIndex(k, newChild) with k in range when the call is
\* made and a defined, non-failure newChild, another child of p included,
\* never trips the index assertion of line 136, and the child taken out is
\* the one that was at index k.
C20_IndexAssertionHolds ==
  (/\ last.op = "replaceChildAtIndex"
   /\ ~isAllocationFailure(Pre, last.t)
   /\ ~Encloses(Pre, last.t, last.self)
   /\ treeChildAtIndex(Pre, last.self, last.i) # last.t)
    => /\ fault = "none"
       /\ InArena(arena, treeChildAtIndex(Pre, last.self, last.i))
            => parent(arena, treeChildAtIndex(Pre, last.self, last.i)) # last.self

====
